---------------------------- MODULE Spec2Model ----------------------------
(***************************************************************************)
(* A model of the Olist question-answering backend (src/app_updated.py):   *)
(* the data access layer (get_connection, fetch_all, fetch_one), the       *)
(* category translation lookup, the three query agents and the keyword     *)
(* router Orchestrator.run behind the /chat endpoint.                      *)
(*                                                                         *)
(* Text is modelled by TLA+ strings, on which TLC evaluates Len, SubSeq    *)
(* and \o character by character.  A database value is  <<v>>  or the SQL  *)
(* NULL  <<>>;  a Python Optional is  <<v>>  or None  <<>>.  A number that  *)
(* SQLite or Python hold as a float is the exact fraction  [num, den].     *)
(***************************************************************************)
EXTENDS Integers, Sequences, FiniteSets, TLC

VARIABLES
    store,      \* the database file at DB_PATH: its state and its tables
    pc,         \* where the call in progress stands
    question,   \* ChatRequest.query of the request in progress
    q,          \* Orchestrator.run's local  q : the lowered question
    caller,     \* the operation that called fetch_all
    arg,        \* the SQL parameter of that operation
    k_en,       \* Orchestrator.run's loop variable: the matched English label
    failed,     \* an exception is propagating out of fetch_all's with block
    rows,       \* fetch_all's return value
    ret,        \* the return value of the operation that called fetch_all
    openConns,  \* number of open sqlite3 connections
    opened,     \* number of connections the fetch_all call in progress opened
    calls,      \* the agent operations invoked since the request came in
    queries,    \* number of fetch_all calls since the request came in
    raisedBy,   \* the function an uncaught exception came out of ("" if none)
    answer      \* ChatResponse.answer

vars == <<store, pc, question, q, caller, arg, k_en, failed, rows, ret,
          openConns, opened, calls, queries, raisedBy, answer>>

---------------------------------------------------------------------------
(* Values *)

NULL == <<>>
Some(v) == <<v>>
IsNull(x) == x = <<>>
Val(x) == x[1]

\* Python truthiness of an Optional[float]: None and 0.0 are both falsy.
Truthy(x) == ~IsNull(x) /\ Val(x).num # 0

Frac(n, d) == [num |-> n, den |-> d]
FracGE(a, b) == a.num * b.den >= b.num * a.den
FracGT(a, b) == a.num * b.den > b.num * a.den
FracEq(a, b) == a.num * b.den = b.num * a.den

RECURSIVE Gcd(_, _)
Gcd(a, b) == IF b = 0 THEN a ELSE Gcd(b, a % b)

\* A float has one representation for one value: fractions are kept reduced.
Reduce(n, d) == LET g == Gcd(n, d) IN Frac(n \div g, d \div g)

Range(s) == {s[i] : i \in 1..Len(s)}

RECURSIVE SumSeq(_)
SumSeq(s) == IF s = <<>> THEN 0 ELSE Head(s) + SumSeq(Tail(s))

RECURSIVE SelectSeqOf(_, _)
\* the members of the sequence s that are in the set S, in s's order
SelectSeqOf(s, S) ==
    IF s = <<>> THEN <<>>
    ELSE (IF Head(s) \in S THEN <<Head(s)>> ELSE <<>>) \o SelectSeqOf(Tail(s), S)

RECURSIVE Distinct(_)
\* s without the later occurrences of a value
Distinct(s) ==
    IF s = <<>> THEN <<>>
    ELSE LET d == Distinct(SubSeq(s, 1, Len(s) - 1))
         IN  IF s[Len(s)] \in Range(d) THEN d ELSE Append(d, s[Len(s)])

---------------------------------------------------------------------------
(* Text *)

\* The characters of the model in code point order.
CodeOrder == " -.0123456789:?ABCDEFGHIJKLMNOPQRSTUVWXYZ_abcdefghijklmnopqrstuvwxyzÃã"
UpperChars == "ABCDEFGHIJKLMNOPQRSTUVWXYZÃ"
LowerChars == "abcdefghijklmnopqrstuvwxyzã"

Char(s, i) == SubSeq(s, i, i)
Chars(s) == {Char(s, i) : i \in 1..Len(s)}
IndexOf(c, s) == CHOOSE i \in 1..Len(s) : Char(s, i) = c

\* the place of each character in the code point order
Ord == [c \in Chars(CodeOrder) |-> IndexOf(c, CodeOrder)]

\* str.__contains__:  p in s
Contains(p, s) ==
    \E i \in 1..(Len(s) - Len(p) + 1) : SubSeq(s, i, i + Len(p) - 1) = p

\* the lower case of each upper case letter
LowerOf == [c \in Chars(UpperChars) |-> Char(LowerChars, IndexOf(c, UpperChars))]

LowerChar(c) == IF c \in DOMAIN LowerOf THEN LowerOf[c] ELSE c

RECURSIVE Lower(_)
\* str.lower()
Lower(s) == IF Len(s) = 0 THEN ""
            ELSE LowerChar(Char(s, 1)) \o Lower(SubSeq(s, 2, Len(s)))

RECURSIVE Strip(_)
\* str.strip()
Strip(s) == IF Len(s) = 0 THEN ""
            ELSE IF Char(s, 1) = " " THEN Strip(SubSeq(s, 2, Len(s)))
            ELSE IF Char(s, Len(s)) = " " THEN Strip(SubSeq(s, 1, Len(s) - 1))
            ELSE s

RECURSIVE ReplaceChar(_, _, _)
\* str.replace(a, b) for one-character a and b
ReplaceChar(s, a, b) ==
    IF Len(s) = 0 THEN ""
    ELSE (IF Char(s, 1) = a THEN b ELSE Char(s, 1)) \o ReplaceChar(SubSeq(s, 2, Len(s)), a, b)

RECURSIVE StrLess(_, _)
\* Python's  a < b  on str: lexicographic by code point
StrLess(a, b) ==
    IF Len(b) = 0 THEN FALSE
    ELSE IF Len(a) = 0 THEN TRUE
    ELSE IF Char(a, 1) = Char(b, 1) THEN StrLess(SubSeq(a, 2, Len(a)), SubSeq(b, 2, Len(b)))
    ELSE Ord[Char(a, 1)] < Ord[Char(b, 1)]

RECURSIVE Join(_, _)
\* sep.join(parts)
Join(sep, parts) ==
    IF parts = <<>> THEN ""
    ELSE IF Len(parts) = 1 THEN parts[1]
    ELSE parts[1] \o sep \o Join(sep, Tail(parts))

Digits == "0123456789"

RECURSIVE IntToStr(_)
\* str(n) for n >= 0
IntToStr(n) == IF n < 10 THEN Char(Digits, n + 1)
               ELSE IntToStr(n \div 10) \o Char(Digits, (n % 10) + 1)

\* round(x) to the nearest integer, ties to even, of the fraction n/d >= 0
RoundHalfEven(n, d) ==
    LET quot == n \div d
        r == n % d
    IN  IF 2 * r < d THEN quot
        ELSE IF 2 * r > d THEN quot + 1
        ELSE IF quot % 2 = 0 THEN quot ELSE quot + 1

\* format(x, ".2f") for x = f.num / f.den >= 0.  A float that lies exactly
\* half way between two hundredths is a dyadic fraction, which the float holds
\* exactly, and Python rounds it to even.
Format2f(f) ==
    LET h == RoundHalfEven(100 * f.num, f.den)
    IN  IntToStr(h \div 100) \o "." \o IntToStr((h % 100) \div 10) \o IntToStr(h % 10)


---------------------------------------------------------------------------
(* The store: the SQLite file at DB_PATH.                                  *)
(*   state "missing"    : no file at DB_PATH (os.path.exists is false)     *)
(*   state "unopenable" : a file sqlite3.connect cannot open               *)
(*   state "corrupt"    : a file that opens but whose statements fail      *)
(*                        (no such table, not a database)                  *)
(*   state "ok"         : a database with the six tables                   *)

RECURSIVE Concat(_)
\* the concatenation of a sequence of sequences
Concat(ss) == IF ss = <<>> THEN <<>> ELSE Head(ss) \o Concat(Tail(ss))

RECURSIVE SortedStrings(_)
\* sorted(S) for a set S of str
SortedStrings(S) ==
    IF S = {} THEN <<>>
    ELSE LET m == CHOOSE x \in S : \A y \in S : x = y \/ StrLess(x, y)
         IN  <<m>> \o SortedStrings(S \ {m})

\* AVG(column) over the values vs of the column: NULLs are left out, and the
\* average of no value is NULL.
SqlAvg(vs) ==
    LET present == SelectSeq(vs, LAMBDA v : ~IsNull(v))
        nums    == [i \in 1..Len(present) |-> Val(present[i])]
    IN  IF present = <<>> THEN NULL ELSE Some(Reduce(SumSeq(nums), Len(nums)))

\* COUNT(column): the number of non-NULL values
SqlCount(vs) == Len(SelectSeq(vs, LAMBDA v : ~IsNull(v)))

\* a = b in SQL: never true of a NULL
SqlEq(a, b) == ~IsNull(a) /\ ~IsNull(b) /\ a = b

AsciiUpper == "ABCDEFGHIJKLMNOPQRSTUVWXYZ"
AsciiLower == "abcdefghijklmnopqrstuvwxyz"
AsciiLowerOf == [c \in Chars(AsciiUpper) |-> Char(AsciiLower, IndexOf(c, AsciiUpper))]

RECURSIVE SqlLowerStr(_)
SqlLowerStr(s) ==
    IF Len(s) = 0 THEN ""
    ELSE (IF Char(s, 1) \in DOMAIN AsciiLowerOf THEN AsciiLowerOf[Char(s, 1)] ELSE Char(s, 1))
             \o SqlLowerStr(SubSeq(s, 2, Len(s)))

\* SQLite's LOWER(x): folds the ASCII letters only; LOWER(NULL) is NULL
SqlLower(x) == IF IsNull(x) THEN NULL ELSE Some(SqlLowerStr(Val(x)))

\* SELECT product_category_name, product_category_name_english
\* FROM category_translation
SelectTranslation(db) == db.category_translation

\* SELECT DISTINCT product_category_name FROM products
\* WHERE product_category_name IS NOT NULL
SelectCategories(db) ==
    LET named == SelectSeq(db.products, LAMBDA p : ~IsNull(p.product_category_name))
    IN  Distinct([i \in 1..Len(named) |->
                     [product_category_name |-> named[i].product_category_name]])

\* SELECT AVG(i.price) AS avg_price FROM items i
\* JOIN products p ON i.product_id = p.product_id
\* WHERE p.product_category_name = ? AND i.price IS NOT NULL
\* An aggregate without GROUP BY yields exactly one row.
SelectAveragePrice(db, category) ==
    LET priceOf(i) ==
            Concat([k \in 1..Len(db.products) |->
                IF /\ SqlEq(i.product_id, db.products[k].product_id)
                   /\ SqlEq(db.products[k].product_category_name, category)
                   /\ ~IsNull(i.price)
                THEN <<i.price>> ELSE <<>>])
        prices == Concat([j \in 1..Len(db.items) |-> priceOf(db.items[j])])
    IN  <<[avg_price |-> SqlAvg(prices)]>>

\* the review_score of every row of  ... JOIN reviews r ON order_id = r.order_id
ReviewScores(db, order_id) ==
    LET rs == SelectSeq(db.reviews, LAMBDA r : SqlEq(order_id, r.order_id))
    IN  [k \in 1..Len(rs) |-> rs[k].review_score]

\* the review_score column of  products p JOIN items i ON p.product_id =
\* i.product_id JOIN reviews r ON i.order_id = r.order_id, for one product_id
ProductScores(db, pid) ==
    LET ofItem(i) == IF SqlEq(i.product_id, pid) THEN ReviewScores(db, i.order_id)
                     ELSE <<>>
        ofProduct(p) == IF SqlEq(p.product_id, pid)
                        THEN Concat([j \in 1..Len(db.items) |-> ofItem(db.items[j])])
                        ELSE <<>>
    IN  Concat([k \in 1..Len(db.products) |-> ofProduct(db.products[k])])

\* The groups of GROUP BY p.product_id, in the ascending key order in which
\* SQLite's sorting GROUP BY emits them.
ProductIds(db) ==
    LET ids == {Val(db.products[k].product_id) :
                    k \in {j \in 1..Len(db.products) : ~IsNull(db.products[j].product_id)}}
    IN  SortedStrings(ids)

\* SqlLimit for a statement without its LIMIT clause
SqlNoLimit(rs, n) == rs

\* LIMIT n: a negative n is no limit
SqlLimit(rs, n) == IF n < 0 THEN rs ELSE SubSeq(rs, 1, IF n < Len(rs) THEN n ELSE Len(rs))

RECURSIVE OrderByCount(_)
\* ORDER BY review_count DESC, rows of equal count kept in group order
OrderByCount(rs) ==
    IF rs = <<>> THEN <<>>
    ELSE LET sorted == OrderByCount(SubSeq(rs, 1, Len(rs) - 1))
             r      == rs[Len(rs)]
             ahead  == SelectSeq(sorted, LAMBDA x : x.review_count >= r.review_count)
             behind == SelectSeq(sorted, LAMBDA x : x.review_count < r.review_count)
         IN  ahead \o <<r>> \o behind

\* SELECT p.product_id, COUNT(r.review_score) AS review_count,
\*        AVG(r.review_score) AS avg_score
\* FROM products p JOIN items i ... JOIN reviews r ...
\* WHERE r.review_score >= 4 GROUP BY p.product_id
\* ORDER BY review_count DESC LIMIT 1
SelectMostPositive(db) ==
    LET ids == ProductIds(db)
        positive(pid) == SelectSeq(ProductScores(db, Some(pid)),
                                   LAMBDA v : ~IsNull(v) /\ Val(v) >= 4)
        groups == SelectSeq(ids, LAMBDA pid : positive(pid) # <<>>)
        out == [k \in 1..Len(groups) |->
                   [product_id   |-> Some(groups[k]),
                    review_count |-> SqlCount(positive(groups[k])),
                    avg_score    |-> SqlAvg(positive(groups[k]))]]
    IN  SqlLimit(OrderByCount(out), 1)

\* a row r comes before a row x under ORDER BY avg_score DESC, total_reviews DESC
BestBefore(r, x) ==
    \/ FracGT(Val(r.avg_score), Val(x.avg_score))
    \/ /\ FracEq(Val(r.avg_score), Val(x.avg_score))
       /\ r.total_reviews > x.total_reviews

RECURSIVE OrderBest(_)
\* ORDER BY avg_score DESC, total_reviews DESC, equal rows kept in group order
OrderBest(rs) ==
    IF rs = <<>> THEN <<>>
    ELSE LET sorted == OrderBest(SubSeq(rs, 1, Len(rs) - 1))
             r      == rs[Len(rs)]
             ahead  == SelectSeq(sorted, LAMBDA x : ~BestBefore(r, x))
             behind == SelectSeq(sorted, LAMBDA x : BestBefore(r, x))
         IN  ahead \o <<r>> \o behind

\* HAVING avg_score >= 4: a group whose average is NULL is dropped
HavingGoodScore(r) == ~IsNull(r.avg_score) /\ FracGE(Val(r.avg_score), Frac(4, 1))

\* SELECT p.product_id, COUNT(r.review_score) AS total_reviews,
\*        AVG(r.review_score) AS avg_score
\* FROM products p JOIN items i ... JOIN reviews r ...
\* GROUP BY p.product_id HAVING avg_score >= 4
\* ORDER BY avg_score DESC, total_reviews DESC LIMIT ?
SelectBestProducts(db, limit) ==
    LET ids == ProductIds(db)
        groups == SelectSeq(ids, LAMBDA pid : ProductScores(db, Some(pid)) # <<>>)
        out == [k \in 1..Len(groups) |->
                   [product_id    |-> Some(groups[k]),
                    total_reviews |-> SqlCount(ProductScores(db, Some(groups[k]))),
                    avg_score     |-> SqlAvg(ProductScores(db, Some(groups[k])))]]
    IN  SqlLimit(OrderBest(SelectSeq(out, HavingGoodScore)), limit)

\* SELECT s.seller_city, COUNT(o.order_id) AS total_orders,
\*        AVG(r.review_score) AS avg_review
\* FROM sellers s JOIN items i ON s.seller_id = i.seller_id
\* JOIN orders o ON i.order_id = o.order_id
\* LEFT JOIN reviews r ON o.order_id = r.order_id
\* WHERE LOWER(s.seller_city) = LOWER(?) GROUP BY s.seller_city
SelectSellerPerformance(db, city) ==
    LET \* the review_score column of the rows joined to one order: a LEFT JOIN
        \* keeps an order without review as one row of NULLs
        ofOrder(o) == LET sc == ReviewScores(db, o.order_id)
                      IN  IF sc = <<>> THEN <<NULL>> ELSE sc
        ofItem(i) == Concat([k \in 1..Len(db.orders) |->
                        IF SqlEq(i.order_id, db.orders[k].order_id)
                        THEN ofOrder(db.orders[k]) ELSE <<>>])
        ofSeller(s) == Concat([j \in 1..Len(db.items) |->
                        IF SqlEq(s.seller_id, db.items[j].seller_id)
                        THEN ofItem(db.items[j]) ELSE <<>>])
        inCity == SelectSeq(db.sellers,
                      LAMBDA s : SqlEq(SqlLower(s.seller_city), SqlLower(city)))
        ofCity(c) == Concat([k \in 1..Len(inCity) |->
                        IF inCity[k].seller_city = Some(c) THEN ofSeller(inCity[k])
                        ELSE <<>>])
        cities == SortedStrings({Val(inCity[k].seller_city) : k \in 1..Len(inCity)})
        groups == SelectSeq(cities, LAMBDA c : ofCity(c) # <<>>)
    IN  [k \in 1..Len(groups) |->
            [seller_city  |-> Some(groups[k]),
             total_orders |-> Len(ofCity(groups[k])),
             avg_review   |-> SqlAvg(ofCity(groups[k]))]]

\* cur.execute(query, params); cur.fetchall() on a database that answers
Execute(db, op, params) ==
    CASE op = "get_category_translation_map" -> SelectTranslation(db)
      [] op = "list_categories"              -> SelectCategories(db)
      [] op = "average_price_by_category"    -> SelectAveragePrice(db, params)
      [] op = "seller_performance"           -> SelectSellerPerformance(db, params)
      [] op = "most_positive_reviewed_product" -> SelectMostPositive(db)
      [] op = "best_products"                -> SelectBestProducts(db, params)

---------------------------------------------------------------------------
(* Helpers and agents: what each operation makes of fetch_all's rows *)

\* fetch_one:  rows[0] if rows else None
fetch_one(rs) == IF rs # <<>> THEN Some(rs[1]) ELSE NULL

\* normalize_category:  cat.strip().lower().replace(" ", "_")
normalize_category(cat) == ReplaceChar(Lower(Strip(cat)), " ", "_")

RECURSIVE DictOf(_)
\* A dict built from (key, value) pairs, as the sequence of its items in
\* insertion order: a key met again keeps its place and takes the new value.
DictOf(pairs) ==
    IF pairs = <<>> THEN <<>>
    ELSE LET d == DictOf(SubSeq(pairs, 1, Len(pairs) - 1))
             e == pairs[Len(pairs)]
         IN  IF \E i \in 1..Len(d) : d[i].key = e.key
             THEN [i \in 1..Len(d) |-> IF d[i].key = e.key THEN e ELSE d[i]]
             ELSE Append(d, e)

\* get_category_translation_map raises (AttributeError: None has no strip)
\* when a row's product_category_name_english is NULL.
TranslationRaises(rs) ==
    \E i \in 1..Len(rs) : IsNull(rs[i].product_category_name_english)

\* get_category_translation_map's dict comprehension
get_category_translation_map(rs) ==
    DictOf([i \in 1..Len(rs) |->
               [key   |-> normalize_category(Val(rs[i].product_category_name_english)),
                value |-> rs[i].product_category_name]])

\* The fallback of list_categories
FallbackCategories ==
    <<"furniture", "electronics", "auto", "toys", "fashion", "sports",
      "home_appliances", "books", "health_beauty">>

\* list_categories without the sort: the labels in the order of the rows
list_categories_unsorted(rs) ==
    LET categories == [i \in 1..Len(rs) |-> Val(rs[i].product_category_name)]
    IN  IF categories = <<>> THEN FallbackCategories ELSE categories

\* SQLAgent.list_categories
list_categories(rs) ==
    LET categories == SortedStrings({Val(rs[i].product_category_name) : i \in 1..Len(rs)})
    IN  IF categories = <<>> THEN FallbackCategories ELSE categories

\* SQLAgent.average_price_by_category:
\*   row["avg_price"] if row and row["avg_price"] else None
average_price_by_category(rs) ==
    LET row == fetch_one(rs)
    IN  IF ~IsNull(row) /\ Truthy(Val(row).avg_price) THEN Val(row).avg_price ELSE NULL

\* SQLAgent.seller_performance
seller_performance(rs) == fetch_one(rs)

\* RAGAgent.most_positive_reviewed_product
most_positive_reviewed_product(rs) == fetch_one(rs)

\* RecommendationAgent.best_products
best_products(rs) == rs

\* best_products' default  limit
DefaultLimit == 5

AgentOps == {"list_categories", "average_price_by_category", "seller_performance",
             "most_positive_reviewed_product", "best_products"}

\* what the caller of fetch_all returns, given fetch_all's rows
ReturnValue(op, rs) ==
    CASE op = "get_category_translation_map"   -> get_category_translation_map(rs)
      [] op = "list_categories"                -> list_categories(rs)
      [] op = "average_price_by_category"      -> average_price_by_category(rs)
      [] op = "seller_performance"             -> seller_performance(rs)
      [] op = "most_positive_reviewed_product" -> most_positive_reviewed_product(rs)
      [] op = "best_products"                  -> best_products(rs)

---------------------------------------------------------------------------
(* Orchestrator.run: the answers *)

Unsupported == "Pertanyaan belum didukung oleh sistem."

\* str(x) of a text column value inside an f-string
StrOf(x) == IF IsNull(x) THEN "None" ELSE Val(x)

RECURSIVE FracDigits(_, _, _)
\* the decimal digits of r/d (0 <= r < d) after the point, at most n of them
FracDigits(r, d, n) ==
    IF r = 0 \/ n = 0 THEN ""
    ELSE IntToStr((10 * r) \div d) \o FracDigits((10 * r) % d, d, n - 1)

\* repr(x) of the float x = f.num / f.den >= 0 whose decimal expansion ends
\* within 16 digits (a longer one is cut there; the model's seller data has
\* none)
ReprFloat(f) ==
    LET frac == FracDigits(f.num % f.den, f.den, 16)
    IN  IntToStr(f.num \div f.den) \o "." \o (IF frac = "" THEN "0" ELSE frac)

\* str(res) of seller_performance's row, a dict
ReprSellerRow(r) ==
    "{'seller_city': '" \o Val(r.seller_city) \o "', 'total_orders': "
        \o IntToStr(r.total_orders) \o ", 'avg_review': "
        \o (IF IsNull(r.avg_review) THEN "None" ELSE ReprFloat(Val(r.avg_review)))
        \o "}"

CategoryAnswer(cats) ==
    IF cats = <<>>
    THEN "Kategori tersedia namun data detail tidak dimuat pada environment cloud."
    ELSE "Kategori yang tersedia:\n- " \o Join("\n- ", cats)

AveragePriceAnswer(label, avg) ==
    IF IsNull(avg)
    THEN "Tidak ditemukan harga valid untuk kategori " \o label \o "."
    ELSE "Rata-rata harga produk kategori " \o label \o " adalah "
             \o Format2f(Val(avg)) \o "."

SellerAnswer(city, res) ==
    IF city = Some("sao paulo")
    THEN (IF ~IsNull(res) THEN "Seller São Paulo: " \o ReprSellerRow(Val(res))
          ELSE "Data São Paulo tidak ditemukan.")
    ELSE (IF ~IsNull(res) THEN "Seller Rio de Janeiro: " \o ReprSellerRow(Val(res))
          ELSE "Data Rio tidak ditemukan.")

MostPositiveAnswer(res) ==
    IF IsNull(res) THEN "Tidak ditemukan produk dengan review positif."
    ELSE "Produk dengan review positif terbanyak adalah " \o StrOf(Val(res).product_id)
             \o " dengan " \o IntToStr(Val(res).review_count) \o " review positif."

BestProductsAnswer(recs) ==
    IF recs = <<>> THEN "Belum cukup data untuk rekomendasi produk."
    ELSE "Rekomendasi produk terbaik:\n- " \o Join("\n- ",
             [i \in 1..Len(recs) |->
                 StrOf(recs[i].product_id) \o " (rating "
                     \o Format2f(Val(recs[i].avg_score)) \o ", "
                     \o IntToStr(recs[i].total_reviews) \o " review)"])

---------------------------------------------------------------------------
(* Orchestrator.run: the rules.  A rule yields the operation to call, or   *)
(* (call = "") the answer to return without a call.                        *)

CallOp(op, params) == [call |-> op, params |-> params, label |-> "", answer |-> ""]
Return(text) == [call |-> "", params |-> NULL, label |-> "", answer |-> text]

\* RecommendationRule with the last rule taken as the default
RecommendationRuleAsDefault(lq) == CallOp("best_products", DefaultLimit)

\* lines 222-232: the recommendation rule, then the final return
RecommendationRule(lq) ==
    IF Contains("produk terbaik", lq) \/ Contains("produk paling bagus", lq)
    THEN CallOp("best_products", DefaultLimit)
    ELSE Return(Unsupported)

\* lines 212-219
RagRule(lq) ==
    IF Contains("paling sering direview positif", lq)
    THEN CallOp("most_positive_reviewed_product", NULL)
    ELSE RecommendationRule(lq)

\* SellerRule as the first branch of an elif chain: a seller question that names
\* no city ends the routing
SellerRuleElif(lq) ==
    IF Contains("performa seller", lq) \/ Contains("bandingkan seller", lq)
    THEN IF Contains("sao paulo", lq) \/ Contains("são paulo", lq)
         THEN CallOp("seller_performance", Some("sao paulo"))
         ELSE IF Contains("rio", lq)
         THEN CallOp("seller_performance", Some("rio de janeiro"))
         ELSE Return(Unsupported)
    ELSE RagRule(lq)

\* SellerRule with the two city tests in the other order
SellerRuleRioFirst(lq) ==
    IF Contains("performa seller", lq) \/ Contains("bandingkan seller", lq)
    THEN IF Contains("rio", lq)
         THEN CallOp("seller_performance", Some("rio de janeiro"))
         ELSE IF Contains("sao paulo", lq) \/ Contains("são paulo", lq)
         THEN CallOp("seller_performance", Some("sao paulo"))
         ELSE RagRule(lq)
    ELSE RagRule(lq)

\* lines 203-209: a seller question that names no city goes on to the next if
SellerRule(lq) ==
    IF Contains("performa seller", lq) \/ Contains("bandingkan seller", lq)
    THEN IF Contains("sao paulo", lq) \/ Contains("são paulo", lq)
         THEN CallOp("seller_performance", Some("sao paulo"))
         ELSE IF Contains("rio", lq)
         THEN CallOp("seller_performance", Some("rio de janeiro"))
         ELSE RagRule(lq)
    ELSE RagRule(lq)

\* lines 193-194
AveragePriceRule(lq) ==
    IF Contains("harga rata rata", lq) \/ Contains("rata-rata harga", lq)
    THEN CallOp("get_category_translation_map", NULL)
    ELSE SellerRule(lq)

\* lines 184-185
CategoryRule(lq) ==
    IF Contains("kategori apa", lq)
    THEN CallOp("list_categories", NULL)
    ELSE AveragePriceRule(lq)

\* lines 195-200: the for loop over trans.items(); the first label that is a
\* substring of the lowered question is priced, and with none the next if is reached.
TranslationLoop(d, lq) ==
    LET hits == {i \in 1..Len(d) : Contains(d[i].key, lq)}
    IN  IF hits = {} THEN SellerRule(lq)
        ELSE LET i == CHOOSE h \in hits : \A g \in hits : h <= g
             IN  [call |-> "average_price_by_category", params |-> d[i].value,
                  label |-> d[i].key, answer |-> ""]

\* what run does with an operation's return value
AfterCall(op, lq, label, params, value) ==
    CASE op = "get_category_translation_map"   -> TranslationLoop(value, lq)
      [] op = "list_categories"                -> Return(CategoryAnswer(value))
      [] op = "average_price_by_category"      -> Return(AveragePriceAnswer(label, value))
      [] op = "seller_performance"             -> Return(SellerAnswer(params, value))
      [] op = "most_positive_reviewed_product" -> Return(MostPositiveAnswer(value))
      [] op = "best_products"                  -> Return(BestProductsAnswer(value))

---------------------------------------------------------------------------
(* The stores and the questions the model draws from *)

MaxTransRows == 2      \* rows of category_translation
MaxFragments == 3      \* phrases in a question
MaxProducts == 3       \* rows of products, when their categories vary
MaxItems == 3          \* rows of items, when their prices vary
MaxReviewed == 2       \* products, when their reviews vary
MaxReviews == 3        \* rows of reviews, when they vary
MaxManyProducts == 6   \* products, when each has one good review
MaxLimit == 2          \* best_products' limit, besides the default

SeqsUpTo(S, n) == UNION {[1..m -> S] : m \in 0..n}

Id(prefix, k) == Some(prefix \o IntToStr(k))

\* a table holds its rows as a list
Table(rs) == <<>> \o rs

Database(translation, products, items, orders, sellers, reviews) ==
    [state |-> "ok", category_translation |-> Table(translation),
     products |-> Table(products), items |-> Table(items), orders |-> Table(orders),
     sellers |-> Table(sellers), reviews |-> Table(reviews)]

\* a store that yields no rows: no file, a file that cannot be opened, a file
\* whose statements fail
BrokenStores ==
    {[state |-> st, category_translation |-> <<>>, products |-> <<>>, items |-> <<>>,
      orders |-> <<>>, sellers |-> <<>>, reviews |-> <<>>]
        : st \in {"missing", "unopenable", "corrupt"}}

TranslationRow(native, english) ==
    [product_category_name |-> native, product_category_name_english |-> english]
ProductRow(id, category) == [product_id |-> id, product_category_name |-> category]
ItemRow(order, product, seller, price) ==
    [order_id |-> order, product_id |-> product, seller_id |-> seller, price |-> price]
OrderRow(id) == [order_id |-> id]
SellerRow(id, city) == [seller_id |-> id, seller_city |-> city]
ReviewRow(order, score) == [order_id |-> order, review_score |-> score]

TranslationRows ==
    {TranslationRow(Some("moveis_decoracao"), Some("furniture")),
     TranslationRow(Some("beleza_saude"), Some(" Health Beauty")),
     TranslationRow(Some("pcs"), NULL)}

SampleProducts ==
    <<ProductRow(Id("p", 1), Some("moveis_decoracao")),
      ProductRow(Id("p", 2), Some("beleza_saude")),
      ProductRow(Id("p", 3), NULL)>>
SampleItems ==
    <<ItemRow(Id("o", 1), Id("p", 1), Id("s", 1), Some(10)),
      ItemRow(Id("o", 2), Id("p", 1), Id("s", 1), NULL),
      ItemRow(Id("o", 3), Id("p", 1), Id("s", 2), Some(25)),
      ItemRow(Id("o", 4), Id("p", 2), Id("s", 2), Some(0)),
      ItemRow(Id("o", 4), Id("p", 3), Id("s", 3), Some(7))>>
SampleOrders == <<OrderRow(Id("o", 1)), OrderRow(Id("o", 2)), OrderRow(Id("o", 3)),
                  OrderRow(Id("o", 4))>>
SampleSellers ==
    <<SellerRow(Id("s", 1), Some("sao paulo")),
      SellerRow(Id("s", 2), Some("Sao Paulo")),
      SellerRow(Id("s", 3), Some("curitiba"))>>
SampleReviews ==
    <<ReviewRow(Id("o", 1), Some(5)), ReviewRow(Id("o", 1), Some(4)),
      ReviewRow(Id("o", 3), Some(2)), ReviewRow(Id("o", 4), Some(5))>>

\* the stores of the chat specification: the broken ones, a database whose
\* tables are empty, and the sample data with any translation table of up to
\* MaxTransRows rows, no row twice
ChatStores ==
    BrokenStores
    \cup {Database(<<>>, <<>>, <<>>, <<>>, <<>>, <<>>)}
    \cup {Database(t, SampleProducts, SampleItems, SampleOrders, SampleSellers, SampleReviews)
             : t \in {u \in SeqsUpTo(TranslationRows, MaxTransRows) :
                         \A i \in 1..Len(u) : \A j \in 1..Len(u) :
                             i # j => u[i] # u[j]}}

\* the phrases a question is made of, in the order they are put together
Fragments ==
    <<"Ada kategori apa saja di dataset?", "Harga rata rata", "rata-rata harga",
      "furniture", "health beauty", "health_beauty", "performa seller",
      "Bandingkan seller", "sao paulo", "São Paulo dan Rio de Janeiro", "rio",
      "paling sering direview positif", "produk terbaik", "produk paling bagus",
      "cuaca hari ini">>

\* a question: one to MaxFragments of the phrases, a blank between two
QuestionOf(chosen) == Join(" ", SelectSeqOf(Fragments, chosen))

---------------------------------------------------------------------------
(* The data access layer and the request, step by step *)

\* Caught for  except sqlite3.Error : the RuntimeError of get_connection passes
CaughtSqliteErrors(exc) == exc \in {"OperationalError", "DatabaseError"}

\* except Exception (line 62): every exception raised inside fetch_all's try
\* (RuntimeError, sqlite3.OperationalError, sqlite3.DatabaseError) is caught
Caught(exc) == exc \in {"RuntimeError", "OperationalError", "DatabaseError"}

\* ConnsAfterFinally without the try/finally: close only after a with block
\* that did not raise
ConnsAfterCloseOnSuccess(n, exc) == IF exc = "" THEN n - 1 ELSE n

\* finally: conn.close() (lines 52-53) runs whether or not the with block
\* raised
ConnsAfterFinally(n, exc) == n - 1

NoRequest == ""

\* the locals of a call that has not started
Idle ==
    /\ pc = "idle"
    /\ question = NoRequest
    /\ q = ""
    /\ caller = ""
    /\ arg = NULL
    /\ k_en = ""
    /\ failed = ""
    /\ rows = <<>>
    /\ ret = NULL
    /\ opened = 0
    /\ calls = <<>>
    /\ queries = 0
    /\ raisedBy = ""
    /\ answer = NULL

\* run returns the step's answer, or calls the step's operation, which
\* enters fetch_all
Begin(step) ==
    IF step.call = ""
    THEN /\ pc' = "done"
         /\ answer' = Some(step.answer)
         /\ UNCHANGED <<caller, arg, k_en, calls, queries, opened>>
    ELSE /\ pc' = "fetch"
         /\ caller' = step.call
         /\ arg' = step.params
         /\ k_en' = step.label
         /\ calls' = IF step.call \in AgentOps
                     THEN Append(calls, [op |-> step.call, params |-> step.params])
                     ELSE calls
         /\ queries' = queries + 1
         /\ opened' = 0
         /\ UNCHANGED answer

\* POST /chat: chat(req) calls agent.run(req.query), which lowers the question
\* and tries the rules up to the first call of an agent or the final return
Chat(query) ==
    /\ pc = "idle"
    /\ question' = query
    /\ q' = Lower(query)
    /\ Begin(CategoryRule(Lower(query)))
    /\ UNCHANGED <<store, failed, rows, ret, openConns, raisedBy>>

\* get_connection up to its yield (lines 46-51)
GetConnection ==
    /\ pc = "fetch"
    /\ CASE store.state = "missing" ->
              /\ failed' = "RuntimeError"
              /\ pc' = "except"
              /\ UNCHANGED <<openConns, opened>>
         [] store.state = "unopenable" ->
              /\ failed' = "OperationalError"
              /\ pc' = "except"
              /\ UNCHANGED <<openConns, opened>>
         [] OTHER ->
              /\ failed' = ""
              /\ pc' = "connected"
              /\ openConns' = openConns + 1
              /\ opened' = opened + 1
    /\ UNCHANGED <<store, question, q, caller, arg, k_en, rows, ret, calls, queries,
                   raisedBy, answer>>

\* the with block (lines 59-61): execute, fetchall and build the list to return
ExecuteQuery ==
    /\ pc = "connected"
    /\ IF store.state = "ok"
       THEN /\ rows' = Execute(store, caller, arg)
            /\ failed' = ""
       ELSE /\ rows' = rows
            /\ failed' = "DatabaseError"
    /\ pc' = "finally"
    /\ UNCHANGED <<store, question, q, caller, arg, k_en, ret, openConns, opened,
                   calls, queries, raisedBy, answer>>

\* get_connection after its yield (lines 52-53), then fetch_all returns the
\* list or the exception goes on to the except clause
CloseConnection ==
    /\ pc = "finally"
    /\ openConns' = ConnsAfterFinally(openConns, failed)
    /\ pc' = IF failed = "" THEN "fetched" ELSE "except"
    /\ UNCHANGED <<store, question, q, caller, arg, k_en, failed, rows, ret, opened,
                   calls, queries, raisedBy, answer>>

\* the except clause (lines 62-64): log and return []
HandleException ==
    /\ pc = "except"
    /\ IF Caught(failed)
       THEN /\ rows' = <<>>
            /\ pc' = "fetched"
            /\ UNCHANGED raisedBy
       ELSE /\ pc' = "raised"
            /\ raisedBy' = "fetch_all"
            /\ UNCHANGED rows
    /\ UNCHANGED <<store, question, q, caller, arg, k_en, failed, ret, openConns,
                   opened, calls, queries, answer>>

\* the caller of fetch_all makes its return value of the rows, or raises
OperationReturns ==
    /\ pc = "fetched"
    /\ IF caller = "get_category_translation_map" /\ TranslationRaises(rows)
       THEN /\ pc' = "raised"
            /\ raisedBy' = "get_category_translation_map"
            /\ UNCHANGED ret
       ELSE /\ pc' = "returned"
            /\ ret' = ReturnValue(caller, rows)
            /\ UNCHANGED raisedBy
    /\ UNCHANGED <<store, question, q, caller, arg, k_en, failed, rows, openConns,
                   opened, calls, queries, answer>>

\* run goes on with the operation's return value
RunResumes ==
    /\ pc = "returned"
    /\ Begin(AfterCall(caller, q, k_en, arg, ret))
    /\ UNCHANGED <<store, question, q, failed, rows, ret, openConns, raisedBy>>

\* chat returns ChatResponse(answer), or the exception run let through
\* becomes the server's error response; the request's locals are gone
Respond ==
    /\ pc \in {"done", "raised"}
    /\ pc' = "idle"
    /\ question' = NoRequest
    /\ q' = ""
    /\ caller' = ""
    /\ arg' = NULL
    /\ k_en' = ""
    /\ failed' = ""
    /\ rows' = <<>>
    /\ ret' = NULL
    /\ opened' = 0
    /\ calls' = <<>>
    /\ queries' = 0
    /\ raisedBy' = ""
    /\ answer' = NULL
    /\ UNCHANGED <<store, openConns>>

\* a request comes in when the server is idle
Request ==
    /\ pc = "idle"
    /\ \E chosen \in SUBSET Range(Fragments) :
           /\ Cardinality(chosen) \in 1..MaxFragments
           /\ Chat(QuestionOf(chosen))

Next ==
    \/ Request
    \/ GetConnection
    \/ ExecuteQuery
    \/ CloseConnection
    \/ HandleException
    \/ OperationReturns
    \/ RunResumes
    \/ Respond

Init ==
    /\ store \in ChatStores
    /\ openConns = 0
    /\ Idle

Spec == Init /\ [][Next]_vars

---------------------------------------------------------------------------
(* The agents called on their own, over stores whose data vary *)

\* products of up to MaxProducts rows whose categories vary
CategoryValues == {NULL, Some("moveis_decoracao"), Some("beleza_saude"), Some("Auto")}
CategoryStores ==
    BrokenStores \cup
    {Database(<<>>, [k \in 1..Len(cs) |-> ProductRow(Id("p", k), cs[k])],
              <<>>, <<>>, <<>>, <<>>)
        : cs \in SeqsUpTo(CategoryValues, MaxProducts)}

\* two products of two categories, and items whose product and price vary
PriceValues == {NULL, Some(0), Some(10), Some(25)}
PricedCategories == <<Some("moveis_decoracao"), Some("beleza_saude")>>
PricedDatabase(its) ==
    Database(<<>>,
             [k \in 1..Len(PricedCategories) |-> ProductRow(Id("p", k), PricedCategories[k])],
             [j \in 1..Len(its) |->
                 ItemRow(Id("o", j), Id("p", its[j][1]), Id("s", 1), its[j][2])],
             [j \in 1..Len(its) |-> OrderRow(Id("o", j))],
             <<SellerRow(Id("s", 1), Some("sao paulo"))>>,
             <<>>)

\* n products, product k sold once, in order k, and reviews whose order and
\* score vary
ScoreValues == {NULL, Some(3), Some(5)}
GoodScores == {Some(4), Some(5)}
ReviewedDatabase(n, rs) ==
    Database(<<>>,
             [k \in 1..n |-> ProductRow(Id("p", k), Some("moveis_decoracao"))],
             [k \in 1..n |-> ItemRow(Id("o", k), Id("p", k), Id("s", 1), Some(10))],
             [k \in 1..n |-> OrderRow(Id("o", k))],
             <<SellerRow(Id("s", 1), Some("sao paulo"))>>,
             [j \in 1..Len(rs) |-> ReviewRow(Id("o", rs[j][1]), rs[j][2])])

\* a direct call of an agent operation
CallAgent(op, params) ==
    /\ pc = "idle"
    /\ Begin(CallOp(op, params))
    /\ UNCHANGED <<store, question, q, failed, rows, ret, openConns, raisedBy>>

CallListCategories == CallAgent("list_categories", NULL)

CallAveragePrice ==
    /\ pc = "idle"
    /\ \E c \in Range(PricedCategories) : CallAgent("average_price_by_category", c)

CallBestProducts ==
    /\ pc = "idle"
    /\ \E limit \in (1..MaxLimit) \cup {DefaultLimit} : CallAgent("best_products", limit)

\* the caller has the operation's return value
Finish ==
    /\ pc = "returned"
    /\ pc' = "idle"
    /\ question' = NoRequest
    /\ q' = ""
    /\ caller' = ""
    /\ arg' = NULL
    /\ k_en' = ""
    /\ failed' = ""
    /\ rows' = <<>>
    /\ ret' = NULL
    /\ opened' = 0
    /\ calls' = <<>>
    /\ queries' = 0
    /\ raisedBy' = ""
    /\ answer' = NULL
    /\ UNCHANGED <<store, openConns>>

FetchAll ==
    \/ GetConnection
    \/ ExecuteQuery
    \/ CloseConnection
    \/ HandleException
    \/ OperationReturns

InitCategories == store \in CategoryStores /\ openConns = 0 /\ Idle

\* the broken stores, and up to MaxItems items
InitPrices ==
    /\ \/ store \in BrokenStores
       \/ \E m \in 0..MaxItems :
             \E its \in [1..m -> (1..Len(PricedCategories)) \X PriceValues] :
                 store = PricedDatabase(its)
    /\ openConns = 0
    /\ Idle

\* the broken stores, up to MaxReviewed products with up to MaxReviews
\* reviews, and up to MaxManyProducts products with one review of 4 or 5 each
InitReviews ==
    /\ \/ store \in BrokenStores
       \/ \E n \in 0..MaxReviewed : \E m \in 0..MaxReviews :
             \E rs \in [1..m -> (1..n) \X ScoreValues] :
                 store = ReviewedDatabase(n, rs)
       \/ \E n \in 0..MaxManyProducts : \E sc \in [1..n -> GoodScores] :
             store = ReviewedDatabase(n, [k \in 1..n |-> <<k, sc[k]>>])
    /\ openConns = 0
    /\ Idle

SpecCategories == InitCategories /\ [][CallListCategories \/ FetchAll \/ Finish]_vars
SpecPrices == InitPrices /\ [][CallAveragePrice \/ FetchAll \/ Finish]_vars
SpecReviews == InitReviews /\ [][CallBestProducts \/ FetchAll \/ Finish]_vars

---------------------------------------------------------------------------
(* The claims *)

Kategori(lq) == Contains("kategori apa", lq)
AveragePhrase(lq) == Contains("harga rata rata", lq) \/ Contains("rata-rata harga", lq)
SellerPhrase(lq) == Contains("performa seller", lq) \/ Contains("bandingkan seller", lq)
SaoPaulo(lq) == Contains("sao paulo", lq) \/ Contains("são paulo", lq)
Rio(lq) == Contains("rio", lq)
RagPhrase(lq) == Contains("paling sering direview positif", lq)
BestPhrase(lq) == Contains("produk terbaik", lq) \/ Contains("produk paling bagus", lq)

\* the normalized English labels of the store's translation table (none when
\* the store yields no rows)
Labels ==
    {normalize_category(Val(r.product_category_name_english)) :
        r \in {x \in Range(store.category_translation) :
                  ~IsNull(x.product_category_name_english)}}

\* the average-price rule resolves no category for the question
NoLabelMatch(lq) == AveragePhrase(lq) => \A l \in Labels : ~Contains(l, lq)

Ops == [i \in 1..Len(calls) |-> calls[i].op]

\* C1: for every question and every store state, run returns a text answer and
\* never raises.
C1_RunNeverRaises ==
    /\ pc # "raised"
    /\ pc = "done" => ~IsNull(answer)

\* C2: a question whose lowered text contains none of the eight rule phrases
\* is answered with the fixed message, with no agent operation and no store
\* query.
C2_UnmatchedIsUnsupported ==
    (/\ question # NoRequest
     /\ ~Kategori(q) /\ ~AveragePhrase(q)
     /\ ~SellerPhrase(q) /\ ~RagPhrase(q)
     /\ ~BestPhrase(q))
    => /\ pc = "done"
       /\ answer = Some("Pertanyaan belum didukung oleh sistem.")
       /\ calls = <<>>
       /\ queries = 0

\* a question without rule phrase that names a city and a category was answered
C2_Witness ==
    /\ pc = "done"
    /\ question = "furniture São Paulo dan Rio de Janeiro"
    /\ store.state = "ok"
    /\ answer = Some(Unsupported)

\* the question fell out of the average-price rule (no label matched) or out
\* of the seller rule (no city named)
FellThrough(lq) ==
    /\ ~Kategori(lq)
    /\ NoLabelMatch(lq)
    /\ \/ AveragePhrase(lq)
       \/ SellerPhrase(lq) /\ ~SaoPaulo(lq) /\ ~Rio(lq)

C4_SaoPauloBeforeRio ==
    (/\ question # NoRequest
     /\ SellerPhrase(q) /\ SaoPaulo(q) /\ Rio(q)
     /\ ~Kategori(q) /\ NoLabelMatch(q))
    => /\ Len(calls) <= 1
       /\ \A i \in 1..Len(calls) :
             calls[i].op = "seller_performance" /\ calls[i].params = Some("sao paulo")
       /\ pc = "done" =>
             /\ Len(calls) = 1
             /\ \/ answer = Some("Data São Paulo tidak ditemukan.")
                \/ SubSeq(Val(answer), 1, Len("Seller São Paulo: ")) = "Seller São Paulo: "

\* both cities named, the store has sellers in Sao Paulo, and the answer is
\* theirs
C4_Witness ==
    /\ pc = "done"
    /\ SellerPhrase(q) /\ SaoPaulo(q) /\ Rio(q) /\ ~Kategori(q) /\ ~AveragePhrase(q)
    /\ Len(calls) = 1
    /\ Contains("Seller São Paulo: ", Val(answer))

\* C5: fetch_all never raises: on any failure it returns the empty list, on
\* success the rows of the statement in the store's order, and fetch_one
\* returns the first row or None.
C5_FetchAllNeverRaises ==
    /\ raisedBy # "fetch_all"
    /\ pc = "fetched" =>
          rows = IF store.state = "ok" THEN Execute(store, caller, arg) ELSE <<>>
    /\ (pc = "returned" /\ caller \in {"seller_performance", "most_positive_reviewed_product"})
          => ret = IF rows = <<>> THEN NULL ELSE Some(rows[1])

\* a statement failed on an open connection and fetch_all returned []
C5_Witness ==
    /\ pc = "fetched"
    /\ failed = "DatabaseError"
    /\ rows = <<>>

\* C6: list_categories returns the distinct non-null category labels of
\* products sorted ascending without duplicates, and the nine fallback labels
\* when the store yields none.
C6_ListCategories ==
    (pc = "returned" /\ caller = "list_categories") =>
        LET present == {Val(p.product_category_name) :
                           p \in {x \in Range(store.products) :
                                     ~IsNull(x.product_category_name)}}
        IN  IF present = {}
            THEN ret = <<"furniture", "electronics", "auto", "toys", "fashion",
                         "sports", "home_appliances", "books", "health_beauty">>
            ELSE /\ Range(ret) = present
                 /\ \A i \in 1..Len(ret) : \A j \in 1..Len(ret) :
                        i < j => StrLess(ret[i], ret[j])

\* products whose labels repeat and are not in order were listed
C6_Witness ==
    /\ pc = "returned" /\ caller = "list_categories"
    /\ Len(store.products) = 3
    /\ store.products[1].product_category_name = Some("moveis_decoracao")
    /\ store.products[2].product_category_name = Some("Auto")
    /\ store.products[3].product_category_name = Some("moveis_decoracao")
    /\ ret = <<"Auto", "moveis_decoracao">>

\* the non-null prices of the items of the products of a category
PricesOf(category) ==
    LET sold == SelectSeq(store.items, LAMBDA i :
                    /\ ~IsNull(i.price)
                    /\ \E p \in Range(store.products) :
                          /\ p.product_id = i.product_id
                          /\ p.product_category_name = category)
    IN  [k \in 1..Len(sold) |-> Val(sold[k].price)]

\* C7: average_price_by_category returns the average of the non-null prices of
\* the category's items, and None exactly when the category has no priced
\* item.
C7_AverageOfPricedItems ==
    (pc = "returned" /\ caller = "average_price_by_category") =>
        LET prices == PricesOf(arg)
        IN  IF prices = <<>> THEN IsNull(ret)
            ELSE /\ ~IsNull(ret)
                 /\ Val(ret).num * Len(prices) = SumSeq(prices) * Val(ret).den

\* the non-null review scores of the orders a product was sold in
ScoresOf(product_id) ==
    LET given == SelectSeq(store.reviews, LAMBDA r :
                    /\ ~IsNull(r.review_score)
                    /\ \E i \in Range(store.items) :
                          i.product_id = product_id /\ i.order_id = r.order_id)
    IN  [k \in 1..Len(given) |-> Val(given[k].review_score)]

\* C8: best_products(limit) returns at most limit rows (at most 5 by default),
\* each of a product whose average review score is at least 4, in
\* non-increasing order of (average score, number of reviews).
C8_BestProducts ==
    (pc = "returned" /\ caller = "best_products") =>
        /\ Len(ret) <= arg
        /\ arg = DefaultLimit => Len(ret) <= 5
        /\ \A i \in 1..Len(ret) :
              LET scores == ScoresOf(ret[i].product_id)
              IN  /\ scores # <<>>
                  /\ SumSeq(scores) >= 4 * Len(scores)
                  /\ ret[i].total_reviews = Len(scores)
                  /\ Val(ret[i].avg_score).num * Len(scores)
                         = SumSeq(scores) * Val(ret[i].avg_score).den
        /\ \A i \in 1..(Len(ret) - 1) :
              LET a == ScoresOf(ret[i].product_id)
                  b == ScoresOf(ret[i + 1].product_id)
              IN  \/ SumSeq(a) * Len(b) > SumSeq(b) * Len(a)
                  \/ /\ SumSeq(a) * Len(b) = SumSeq(b) * Len(a)
                     /\ Len(a) >= Len(b)

\* six products with good reviews, and the default limit kept five
C8_Witness ==
    /\ pc = "returned" /\ caller = "best_products"
    /\ arg = DefaultLimit
    /\ Len(store.products) = 6
    /\ \A k \in 1..6 : ScoresOf(store.products[k].product_id) \in {<<4>>, <<5>>}
    /\ Len(ret) = 5

\* C9: in the average-price rule a question that writes a label with blanks
\* resolves to the translation entry of that label, as the question that
\* writes it with underscores does.
C9_BlanksResolveLikeUnderscores ==
    (/\ pc = "done"
     /\ ~Kategori(q) /\ AveragePhrase(q)
     /\ \E l \in Labels : Contains(ReplaceChar(l, "_", " "), q))
    => /\ Ops = <<"average_price_by_category">>
       /\ \E l \in Labels :
             /\ Contains(ReplaceChar(l, "_", " "), q)
             /\ Contains("kategori " \o l, Val(answer))

\* C10: a fetch_all call opens at most one connection and has closed it when
\* it returns, on every path; no connection is open when run has returned.
C10_ConnectionsReleased ==
    /\ opened <= 1
    /\ openConns <= 1
    /\ pc \notin {"connected", "finally"} => openConns = 0

\* a statement failed on the one connection of the call, and none is open when
\* the answer is there
C10_Witness ==
    /\ pc = "done"
    /\ store.state = "corrupt"
    /\ opened = 1
    /\ openConns = 0

=============================================================================
